---- MODULE Spec2Model ----
(***************************************************************************)
(* Snowflake schema evolution assistant: schema inference, schema diff,    *)
(* rule-based SQL synthesis, the explanation delegator with its            *)
(* text-generation backend, and the Streamlit session around them.         *)
(*                                                                         *)
(* Text is a sequence of pieces (words, blanks, punctuation); the byte     *)
(* string is the concatenation of the pieces, so an f-string is \o.        *)
(* A dict is the sequence of its items in insertion order, keys distinct.  *)
(***************************************************************************)
EXTENDS Integers, Sequences, FiniteSets, TLC

VARIABLES
    existing,        \* argument: the existing schema (dict, insertion order)
    new,             \* argument: the candidate schema (dict, insertion order)
    table_name,      \* argument: the table name (text)
    df,              \* argument: a DataFrame, as its columns [name, dtype]
    LLM_PROVIDER,    \* llm_utils.LLM_PROVIDER
    LLM_ENDPOINT,    \* llm_utils.LLM_ENDPOINT
    LLM_API_KEY,     \* llm_utils.LLM_API_KEY
    llm_prompts,     \* the prompts chat_llm was called with by the operation
    latest_context,  \* st.session_state.latest_context
    live_schema,     \* st.session_state.live_schema: <<>> is None, <<d>> a dict
    prev_schema,     \* st.session_state.prev_schema
    op,              \* the operation or handler that has run
    ret              \* what it returned, raised or showed

args == <<existing, new, table_name, df>>
llm_config == <<LLM_PROVIDER, LLM_ENDPOINT, LLM_API_KEY>>
session == <<latest_context, live_schema, prev_schema>>

vars == <<existing, new, table_name, df, LLM_PROVIDER, LLM_ENDPOINT,
          LLM_API_KEY, llm_prompts, latest_context, live_schema, prev_schema,
          op, ret>>

-----------------------------------------------------------------------------
(* Bounds and input vocabularies *)

MaxCols == 2

\* Column names as they arrive: two that collide after upper-casing, a third
\* one, and a two-word name (legal in a CSV header, a JSON key and as a quoted
\* Snowflake identifier).
RawNames == { <<"a">>, <<"A">>, <<"B">>, <<"drop", " ", "column">> }

TypeNames == { <<"TEXT">>, <<"NUMBER">> }

TableNames == { <<"T">>, <<"EMPLOYEE">> }

-----------------------------------------------------------------------------
(* Text helpers *)

\* str.upper() on one piece
UpperPiece(p) ==
    CASE p = "a" -> "A"
      [] p = "b" -> "B"
      [] p = "drop" -> "DROP"
      [] p = "column" -> "COLUMN"
      [] OTHER -> p

\* str.upper()
Upper(s) == [i \in 1..Len(s) |-> UpperPiece(s[i])]

\* `sub in s` on texts
Contains(s, sub) ==
    \E i \in 0..(Len(s) - Len(sub)) :
        \A j \in 1..Len(sub) : s[i + j] = sub[j]

\* where the k-th part of s.split(sep) ends: the position of the k-th sep in s,
\* or one past the end of s when s has fewer than k of them (0 for k = 0)
SplitFrom(s, sep, k) ==
    LET seps == { i \in 1..Len(s) : s[i] = sep } IN
    IF k = 0 THEN 0
    ELSE IF k > Cardinality(seps) THEN Len(s) + 1
    ELSE CHOOSE i \in seps : Cardinality({ j \in seps : j < i }) = k - 1

\* s.split(sep): the lines of a text
Split(s, sep) ==
    [k \in 1..(Cardinality({ i \in 1..Len(s) : s[i] = sep }) + 1) |->
        SubSeq(s, SplitFrom(s, sep, k - 1) + 1, SplitFrom(s, sep, k) - 1)]

StartsWith(s, prefix) ==
    /\ Len(prefix) <= Len(s)
    /\ \A j \in 1..Len(prefix) : s[j] = prefix[j]

Reverse(s) == [i \in 1..Len(s) |-> s[Len(s) + 1 - i]]

RECURSIVE Join(_, _)
\* sep.join(lines)
Join(lines, sep) ==
    IF lines = <<>> THEN <<>>
    ELSE IF Len(lines) = 1 THEN lines[1]
    ELSE lines[1] \o sep \o Join(Tail(lines), sep)

-----------------------------------------------------------------------------
(* Dicts: sequences of items [k, v], keys distinct, in insertion order *)

Item(k, v) == [k |-> k, v |-> v]

HasKey(d, k) == \E i \in 1..Len(d) : d[i].k = k

Get(d, k) == d[CHOOSE i \in 1..Len(d) : d[i].k = k].v

\* d[k] = v : an existing key keeps its position, a new key is appended
Put(d, k, v) ==
    IF HasKey(d, k)
    THEN [i \in 1..Len(d) |-> IF d[i].k = k THEN Item(k, v) ELSE d[i]]
    ELSE Append(d, Item(k, v))

RECURSIVE UpperKeysFrom(_, _, _)
UpperKeysFrom(d, i, acc) ==
    IF i > Len(d) THEN acc
    ELSE UpperKeysFrom(d, i + 1, Put(acc, Upper(d[i].k), d[i].v))

\* {k.upper(): v for k, v in d.items()}
UpperKeys(d) == UpperKeysFrom(d, 1, <<>>)

DictsOver(K, V, n) ==
    { d \in UNION { [1..m -> [k : K, v : V]] : m \in 0..n } :
        \A i, j \in 1..Len(d) : i # j => d[i].k # d[j].k }

Schemas == DictsOver(RawNames, TypeNames, MaxCols)

-----------------------------------------------------------------------------
(* schema_utils.compare_schemas *)

\* the candidate's keys are not upper-cased
compare_schemas_RawNew(existing_, new_) ==
    LET e == UpperKeys(existing_)
        n == new_
        both == SelectSeq(e, LAMBDA it : HasKey(n, it.k) /\ it.v # Get(n, it.k))
    IN  [ new_cols     |-> SelectSeq(n, LAMBDA it : ~HasKey(e, it.k)),
          missing_cols |-> SelectSeq(e, LAMBDA it : ~HasKey(n, it.k)),
          conflicts    |-> [i \in 1..Len(both) |->
                               Item(both[i].k, <<both[i].v, Get(n, both[i].k)>>)] ]

\* missing_cols loses its `col not in new` filter
compare_schemas_MissingAll(existing_, new_) ==
    LET e == UpperKeys(existing_)
        n == UpperKeys(new_)
        both == SelectSeq(e, LAMBDA it : HasKey(n, it.k) /\ it.v # Get(n, it.k))
    IN  [ new_cols     |-> SelectSeq(n, LAMBDA it : ~HasKey(e, it.k)),
          missing_cols |-> e,
          conflicts    |-> [i \in 1..Len(both) |->
                               Item(both[i].k, <<both[i].v, Get(n, both[i].k)>>)] ]

compare_schemas(existing_, new_) ==
    LET e == UpperKeys(existing_)
        n == UpperKeys(new_)
        both == SelectSeq(e, LAMBDA it : HasKey(n, it.k) /\ it.v # Get(n, it.k))
    IN  [ new_cols     |-> SelectSeq(n, LAMBDA it : ~HasKey(e, it.k)),
          missing_cols |-> SelectSeq(e, LAMBDA it : ~HasKey(n, it.k)),
          conflicts    |-> [i \in 1..Len(both) |->
                               Item(both[i].k, <<both[i].v, Get(n, both[i].k)>>)] ]

-----------------------------------------------------------------------------
(* schema_utils.generate_sql_with_ai *)

AddColumnLine(table, col, dtype) ==
    <<"ALTER", " ", "TABLE", " ">> \o table \o <<" ", "ADD", " ", "COLUMN", " ">>
        \o col \o <<" ">> \o dtype \o <<" ", "NULL", ";">>

\* a removed column is dropped instead of noted
MissingNoteLine_Drop(col, dtype) ==
    <<"ALTER", " ", "TABLE", " ", "T", " ", "DROP", " ", "COLUMN", " ">> \o col \o <<";">>

MissingNoteLine(col, dtype) ==
    <<"--", " ", "NOTE:", " ", "Column", " ">> \o col \o <<" ", "(">> \o dtype
        \o <<")", " ", "exists", " ", "in", " ", "old", " ", "schema", " ",
             "but", " ", "not", " ", "in", " ", "new.", " ",
             "Drop", " ", "only", " ", "if", " ", "intentional.">>

AlterTypeLine(table, col, new_type) ==
    <<"ALTER", " ", "TABLE", " ">> \o table \o <<" ", "ALTER", " ", "COLUMN", " ">>
        \o col \o <<" ", "SET", " ", "DATA", " ", "TYPE", " ">> \o new_type \o <<";">>

NoChangesSql ==
    <<"--", " ", "No", " ", "schema", " ", "changes", " ", "detected.", " ",
      "No", " ", "ALTER", " ", "TABLE", " ", "needed.">>

\* a conflict is migrated to the existing type
sql_statements_OldType(existing_, new_, table) ==
    LET d == compare_schemas(existing_, new_) IN
        [i \in 1..Len(d.new_cols) |->
            AddColumnLine(table, d.new_cols[i].k, d.new_cols[i].v)]
     \o [i \in 1..Len(d.missing_cols) |->
            MissingNoteLine(d.missing_cols[i].k, d.missing_cols[i].v)]
     \o [i \in 1..Len(d.conflicts) |->
            AlterTypeLine(table, d.conflicts[i].k, d.conflicts[i].v[1])]

sql_statements(existing_, new_, table) ==
    LET d == compare_schemas(existing_, new_) IN
        [i \in 1..Len(d.new_cols) |->
            AddColumnLine(table, d.new_cols[i].k, d.new_cols[i].v)]
     \o [i \in 1..Len(d.missing_cols) |->
            MissingNoteLine(d.missing_cols[i].k, d.missing_cols[i].v)]
     \o [i \in 1..Len(d.conflicts) |->
            AlterTypeLine(table, d.conflicts[i].k, d.conflicts[i].v[2])]

\* the `if not sql_statements` branch is missing
generate_sql_with_ai_NoEmptyCheck(existing_, new_, table) ==
    Join(sql_statements(existing_, new_, table), <<"\n">>)

generate_sql_with_ai(existing_, new_, table) ==
    LET stmts == sql_statements(existing_, new_, table) IN
        IF stmts = <<>> THEN NoChangesSql ELSE Join(stmts, <<"\n">>)

-----------------------------------------------------------------------------
(* The pure core under bounded inputs: one call per behaviour *)

NoLlmConfig ==
    /\ LLM_PROVIDER = "ollama"
    /\ LLM_ENDPOINT = ""
    /\ LLM_API_KEY = ""
    /\ llm_prompts = <<>>

\* app.py's initial session state
FreshSession ==
    /\ latest_context = <<>>
    /\ live_schema = <<>>
    /\ prev_schema = <<>>

InitCore ==
    /\ existing \in Schemas
    /\ new \in Schemas
    /\ table_name \in TableNames
    /\ df = <<>>
    /\ NoLlmConfig
    /\ FreshSession
    /\ op = "none"
    /\ ret = [kind |-> "none"]

Compare ==
    /\ op = "none"
    /\ op' = "compare_schemas"
    /\ ret' = [kind |-> "return", diff |-> compare_schemas(existing, new)]
    /\ UNCHANGED <<args, llm_config, llm_prompts, session>>

GenerateSql ==
    /\ op = "none"
    /\ op' = "generate_sql_with_ai"
    /\ ret' = [kind |-> "return",
               text |-> generate_sql_with_ai(existing, new, table_name)]
    /\ UNCHANGED <<args, llm_config, llm_prompts, session>>

NextCore == Compare \/ GenerateSql

SpecCore == InitCore /\ [][NextCore]_vars

-----------------------------------------------------------------------------
(* llm_utils.chat_llm *)

\* the emoji U+274C and U+2705, one piece each
CrossMark == "<U+274C>"
CheckMark == "<U+2705>"
\* the grave accent U+0060
Backtick == "<U+0060>"

Providers == { "ollama", "remote", "other" }

\* What the backend does with one request.
Backends == { "ok", "unreachable", "error_status", "malformed_body",
              "empty_list", "unexpected_json" }

Return(text) == [kind |-> "return", text |-> text]
Raise(exc) == [kind |-> "raise", exc |-> exc]

chat_llm(provider, endpoint, api_key, prompt, backend) ==
    IF provider = "ollama"
    THEN \* ollama.chat(...) and resp["message"]["content"], outside any try
         CASE backend = "ok" -> Return(<<"generated", " ", "text">>)
           [] backend = "unreachable" -> Raise("ConnectionError")
           [] backend = "error_status" -> Raise("ResponseError")
           [] OTHER -> Raise("KeyError")
    ELSE IF provider = "remote"
    THEN IF endpoint = "" \/ api_key = ""
         THEN Return(<<CrossMark, " ", "Hugging Face endpoint or API key not set.">>)
         ELSE CASE backend = "unreachable" ->
                     Return(<<CrossMark, " ", "Error calling Hugging Face API: ",
                              "ConnectionError">>)
                [] backend = "error_status" ->
                     Return(<<CrossMark, " ", "Hugging Face API error ", "503",
                              ": ", "body">>)
                [] backend = "malformed_body" ->
                     Return(<<CrossMark, " ", "Error calling Hugging Face API: ",
                              "JSONDecodeError">>)
                [] backend = "empty_list" ->
                     Return(<<CrossMark, " ", "Error calling Hugging Face API: ",
                              "IndexError">>)
                [] backend = "unexpected_json" -> Return(<<"{'error': 'loading'}">>)
                [] OTHER -> Return(<<"generated", " ", "text">>)
    ELSE Return(<<CrossMark, " ", "Invalid LLM_PROVIDER. Use 'ollama' or 'remote'.">>)

-----------------------------------------------------------------------------
(* schema_utils._format_schema and explain_changes_with_ai *)

\* code point order of the first characters of the pieces in use
PieceRank(p) ==
    CASE p = " " -> 0
      [] p = "A" -> 1
      [] p = "B" -> 2
      [] p = "DROP" -> 3
      [] p = "a" -> 4
      [] p = "drop" -> 5
      [] OTHER -> 6

\* s < t on texts
RECURSIVE StrLess(_, _)
StrLess(s, t) ==
    IF t = <<>> THEN FALSE
    ELSE IF s = <<>> THEN TRUE
    ELSE IF PieceRank(Head(s)) # PieceRank(Head(t))
         THEN PieceRank(Head(s)) < PieceRank(Head(t))
         ELSE StrLess(Tail(s), Tail(t))

\* sorted(s.items()): keys are distinct, so the key decides
RECURSIVE SortedItems(_)
SortedItems(d) ==
    IF d = <<>> THEN <<>>
    ELSE LET m == CHOOSE i \in 1..Len(d) :
                      \A j \in 1..Len(d) : j # i => StrLess(d[i].k, d[j].k)
         IN  <<d[m]>> \o SortedItems([i \in 1..(Len(d) - 1) |->
                                         IF i < m THEN d[i] ELSE d[i + 1]])

_format_schema(s) ==
    LET it == SortedItems(s) IN
        Join([i \in 1..Len(it) |-> <<"-", " ">> \o it[i].k \o <<":", " ">> \o it[i].v],
             <<"\n">>)

NoChangesMessage(table) ==
    <<CheckMark, " ", "No schema changes detected for table ", Backtick>> \o table
        \o <<Backtick, ".", "  ", "\n",
             "Both existing and candidate schemas are identical.", "  ", "\n",
             "No risks, conflicts, or SQL migrations are required.">>

ExplainPrompt(existing_, new_, table) ==
    <<"\n", "You are an expert Snowflake engineer. Compare the two table schemas and explain the changes clearly.",
      "\n", "\n", "Table: ">> \o table
        \o <<"\n", "\n", "Existing schema:", "\n">> \o _format_schema(existing_)
        \o <<"\n", "\n", "New schema (candidate):", "\n">> \o _format_schema(new_)
        \o <<"\n", "\n", "Describe:", "\n",
             "1) Added columns (with types)", "\n",
             "2) Removed or missing columns and their impact", "\n",
             "3) Data type conflicts and safe migration advice", "\n",
             "4) Risks (NULLability, backfills, ingestion issues)", "\n",
             "Keep it concise with bullet points.", "\n">>

\* the no-change short-circuit is missing
explain_changes_with_ai_AlwaysAsks(existing_, new_, table, provider, endpoint, api_key, backend) ==
    LET prompt == ExplainPrompt(existing_, new_, table) IN
        [res |-> chat_llm(provider, endpoint, api_key, prompt, backend),
         prompts |-> <<prompt>>]

\* the result, with the prompts sent to chat_llm on the way
explain_changes_with_ai(existing_, new_, table, provider, endpoint, api_key, backend) ==
    LET d == compare_schemas(existing_, new_) IN
        IF d.new_cols = <<>> /\ d.missing_cols = <<>> /\ d.conflicts = <<>>
        THEN [res |-> Return(NoChangesMessage(table)), prompts |-> <<>>]
        ELSE LET prompt == ExplainPrompt(existing_, new_, table) IN
                 [res |-> chat_llm(provider, endpoint, api_key, prompt, backend),
                  prompts |-> <<prompt>>]

\* Column names of the explanation runs: what matters there is whether the
\* diff is empty and what the backend does.
ExplainNames == { <<"a">>, <<"B">> }

InitExplain ==
    /\ existing \in DictsOver(ExplainNames, TypeNames, MaxCols)
    /\ new \in DictsOver(ExplainNames, TypeNames, MaxCols)
    /\ table_name \in TableNames
    /\ df = <<>>
    /\ LLM_PROVIDER \in Providers
    /\ LLM_ENDPOINT \in { "", "https://endpoint" }
    /\ LLM_API_KEY \in { "", "key" }
    /\ llm_prompts = <<>>
    /\ FreshSession
    /\ op = "none"
    /\ ret = [kind |-> "none"]

Explain ==
    /\ op = "none"
    /\ \E backend \in Backends :
          LET r == explain_changes_with_ai(existing, new, table_name, LLM_PROVIDER,
                                           LLM_ENDPOINT, LLM_API_KEY, backend)
          IN  /\ ret' = r.res @@ [backend |-> backend]
              /\ llm_prompts' = r.prompts
    /\ op' = "explain_changes_with_ai"
    /\ UNCHANGED <<args, llm_config, session>>

NextExplain == Explain

SpecExplain == InitExplain /\ [][NextExplain]_vars

-----------------------------------------------------------------------------
(* schema_utils.infer_schema_from_df *)

\* The dtypes pandas gives the columns of read_csv, read_json and
\* DataFrame(list of dicts).
DTypes == { "int64", "uint64", "float64", "bool", "datetime64[ns]", "object" }

\* str(df[col].dtype)
DTypeStr(dtype) ==
    CASE dtype = "int64" -> <<"int", "64">>
      [] dtype = "uint64" -> <<"u", "int", "64">>
      [] dtype = "float64" -> <<"float", "64">>
      [] dtype = "bool" -> <<"bool">>
      [] dtype = "datetime64[ns]" -> <<"date", "time", "64", "[ns]">>
      [] OTHER -> <<"object">>

\* the float test comes to FLOAT only after the bool test
canonical_type_BoolForFloat(dtype) ==
    LET s == DTypeStr(dtype) IN
        IF Contains(s, <<"int">>) THEN <<"NUMBER">>
        ELSE IF Contains(s, <<"bool">>) \/ Contains(s, <<"float">>) THEN <<"BOOLEAN">>
        ELSE IF Contains(s, <<"date", "time">>) \/ Contains(s, <<"date">>)
             THEN <<"TIMESTAMP_NTZ">>
        ELSE <<"TEXT">>

\* the if/elif chain on str(dtype)
canonical_type(dtype) ==
    LET s == DTypeStr(dtype) IN
        IF Contains(s, <<"int">>) THEN <<"NUMBER">>
        ELSE IF Contains(s, <<"float">>) THEN <<"FLOAT">>
        ELSE IF Contains(s, <<"bool">>) THEN <<"BOOLEAN">>
        ELSE IF Contains(s, <<"date", "time">>) \/ Contains(s, <<"date">>)
             THEN <<"TIMESTAMP_NTZ">>
        ELSE <<"TEXT">>

RECURSIVE InferFrom(_, _, _)
InferFrom(frame, i, schema) ==
    IF i > Len(frame) THEN schema
    ELSE InferFrom(frame, i + 1,
                   Put(schema, Upper(frame[i].name), canonical_type(frame[i].dtype)))

infer_schema_from_df(frame) == InferFrom(frame, 1, <<>>)

\* DataFrames: column labels are distinct strings
Frames ==
    { f \in UNION { [1..m -> [name : RawNames, dtype : DTypes]] : m \in 0..MaxCols } :
        \A i, j \in 1..Len(f) : i # j => f[i].name # f[j].name }

InitInfer ==
    /\ df \in Frames
    /\ existing = <<>>
    /\ new = <<>>
    /\ table_name = <<"T">>
    /\ NoLlmConfig
    /\ FreshSession
    /\ op = "none"
    /\ ret = [kind |-> "none"]

Infer ==
    /\ op = "none"
    /\ op' = "infer_schema_from_df"
    /\ ret' = [kind |-> "return", schema |-> infer_schema_from_df(df)]
    /\ UNCHANGED <<args, llm_config, llm_prompts, session>>

NextInfer == Infer

SpecInfer == InitInfer /\ [][NextInfer]_vars

-----------------------------------------------------------------------------
(* app.py: the Streamlit session.  One action is one script run with one   *)
(* button pressed; ret holds what the run showed and how it ended.         *)

\* Schema snapshot texts, by what json.loads makes of them.
SnapshotDicts ==
    { <<>>,
      <<Item(<<"a">>, <<"TEXT">>)>>,
      <<Item(<<"B">>, <<"TEXT">>), Item(<<"a">>, <<"NUMBER">>)>> }

\* the frames pandas builds from the row arrays in use
RowFrames ==
    { <<[name |-> <<"a">>, dtype |-> "int64"]>>,
      <<[name |-> <<"a">>, dtype |-> "object"], [name |-> <<"B">>, dtype |-> "float64"]>> }

\* the frame pandas reads from the uploaded file
UploadFrames ==
    { <<[name |-> <<"a">>, dtype |-> "int64"], [name |-> <<"B">>, dtype |-> "object"]>> }

SnapshotTexts ==
    { [json |-> "invalid"],             \* not JSON
      [json |-> "scalar"],              \* 5, "x", true, null
      [json |-> "empty_array"],         \* []
      [json |-> "array_of_scalars"] }   \* [1, 2]
    \cup { [json |-> "object", value |-> d] : d \in SnapshotDicts }
    \cup { [json |-> "array_of_rows", frame |-> f] : f \in RowFrames }

\* what INFORMATION_SCHEMA.COLUMNS returns for the chosen table
CatalogRows ==
    { <<>>,
      <<Item(<<"A">>, <<"text">>)>>,
      <<Item(<<"A">>, <<"NUMBER">>), Item(<<"B">>, <<"TEXT">>)>> }

\* str.upper() on a type name of the catalog
UpperType(v) == IF v = <<"text">> THEN <<"TEXT">> ELSE v

RECURSIVE FetchFrom(_, _, _)
FetchFrom(rows, i, acc) ==
    IF i > Len(rows) THEN acc
    ELSE FetchFrom(rows, i + 1, Put(acc, Upper(rows[i].k), UpperType(rows[i].v)))

\* schema_utils.fetch_schema_from_snowflake, given the rows of the cursor
fetch_schema_from_snowflake(rows) == FetchFrom(rows, 1, <<>>)

\* f"{db}.{sc}.{table}" of the selected table
LiveTableName == <<"DB", ".", "SC", ".", "T">>

LocalTableName == <<"EMPLOYEE">>

\* str(dict)
DictRepr(d) ==
    <<"{">> \o Join([i \in 1..Len(d) |->
                        <<"'">> \o d[i].k \o <<"'", ":", " ", "'">> \o d[i].v \o <<"'">>],
                    <<",", " ">>)
            \o <<"}">>

ContextText(first, a, second, b, sql) ==
    <<first>> \o DictRepr(a) \o <<"\n", second>> \o DictRepr(b)
        \o <<"\n", "SQL: ">> \o sql

\* what the backend does in the session runs
SessionBackends == { "ok", "unreachable" }

InitApp ==
    /\ existing = <<>>
    /\ new = <<>>
    /\ table_name = <<>>
    /\ df = <<>>
    /\ LLM_PROVIDER \in { "ollama", "remote" }
    /\ LLM_ENDPOINT = "https://endpoint"
    /\ LLM_API_KEY = "key"
    /\ llm_prompts = <<>>
    /\ FreshSession
    /\ op = "none"
    /\ ret = [kind |-> "none"]

\* the except branch does not reset st.session_state.live_schema
FetchLiveSchema_KeepsOnError ==
    /\ \E outcome \in {"rows", "error"} : \E rows \in CatalogRows :
          IF outcome = "rows"
          THEN /\ live_schema' = <<fetch_schema_from_snowflake(rows)>>
               /\ ret' = [kind |-> "return", outcome |-> outcome, rows |-> rows,
                          shown |-> <<"success: Live schema fetched">>]
          ELSE /\ live_schema' = live_schema
               /\ ret' = [kind |-> "return", outcome |-> outcome, rows |-> <<>>,
                          shown |-> <<"error: Snowflake error">>]
    /\ op' = "sf_fetch_schema"
    /\ llm_prompts' = <<>>
    /\ UNCHANGED <<args, llm_config, latest_context, prev_schema>>

\* "Fetch live schema" with a database, schema and table selected
FetchLiveSchema ==
    /\ \E outcome \in {"rows", "error"} : \E rows \in CatalogRows :
          IF outcome = "rows"
          THEN /\ live_schema' = <<fetch_schema_from_snowflake(rows)>>
               /\ ret' = [kind |-> "return", outcome |-> outcome, rows |-> rows,
                          shown |-> <<"success: Live schema fetched">>]
          ELSE /\ live_schema' = <<>>
               /\ ret' = [kind |-> "return", outcome |-> outcome, rows |-> <<>>,
                          shown |-> <<"error: Snowflake error">>]
    /\ op' = "sf_fetch_schema"
    /\ llm_prompts' = <<>>
    /\ UNCHANGED <<args, llm_config, latest_context, prev_schema>>

\* "Validate previous schema JSON" on the text of the text area
ValidatePrev ==
    /\ \E text \in SnapshotTexts :
          LET invalid == IF text.json = "invalid" THEN <<"error: Invalid JSON">> ELSE <<>>
          IN  CASE text.json = "array_of_rows" ->
                     /\ prev_schema' = infer_schema_from_df(text.frame)
                     /\ ret' = [kind |-> "return", text |-> text, diff_arg |-> "none",
                                shown |-> <<"success: Detected row-array JSON. Inferred schema:">>]
                [] text.json = "object" ->
                     /\ prev_schema' = UpperKeys(text.value)
                     /\ ret' = [kind |-> "return", text |-> text, diff_arg |-> "none",
                                shown |-> <<"success: Valid schema JSON (dict).">>]
                [] OTHER ->
                     /\ prev_schema' = prev_schema
                     /\ ret' = [kind |-> "return", text |-> text, diff_arg |-> "none",
                                shown |-> invalid \o <<"error: Unsupported JSON structure.">>]
    /\ op' = "validate_prev"
    /\ llm_prompts' = <<>>
    /\ UNCHANGED <<args, llm_config, latest_context, live_schema>>

\* "Analyze changes with AI"
AnalyzeLive ==
    /\ \E backend \in (IF live_schema \in { <<>>, << <<>> >> }
                      THEN {"ok"} ELSE SessionBackends) :
          IF live_schema = <<>> \/ live_schema = << <<>> >>
          THEN /\ ret' = [kind |-> "return", calls |-> <<>>,
                          shown |-> <<"error: No live schema present. Fetch it first.">>]
               /\ llm_prompts' = <<>>
               /\ UNCHANGED latest_context
          ELSE LET live == live_schema[1]
                   e == explain_changes_with_ai(prev_schema, live, LiveTableName,
                            LLM_PROVIDER, LLM_ENDPOINT, LLM_API_KEY, backend)
                   sql == generate_sql_with_ai(prev_schema, live, LiveTableName)
               IN  /\ llm_prompts' = e.prompts
                   /\ IF e.res.kind = "raise"
                      THEN \* the except of line 291: generate_sql_with_ai is not reached
                           /\ ret' = [kind |-> "return",
                                      calls |-> <<"explain_changes_with_ai">>,
                                      shown |-> <<"error: Error while calling AI">>]
                           /\ UNCHANGED latest_context
                      ELSE /\ ret' = [kind |-> "return",
                                      calls |-> <<"explain_changes_with_ai",
                                                  "generate_sql_with_ai">>,
                                      shown |-> <<e.res.text, sql>>]
                           /\ latest_context' =
                                ContextText("Prev: ", prev_schema, "Live: ", live, sql)
    /\ op' = "analyze_live"
    /\ UNCHANGED <<args, llm_config, live_schema, prev_schema>>

\* Local demo mode: a run with a readable uploaded file, the text of the
\* existing-schema area, and the AI button pressed or not
LocalRun ==
    /\ \E text \in SnapshotTexts, frame \in UploadFrames, pressed \in BOOLEAN :
       \E backend \in (IF pressed THEN SessionBackends ELSE {"ok"}) :
          LET new_schema == infer_schema_from_df(frame)
              invalid == IF text.json = "invalid"
                         THEN <<"error: Invalid existing schema JSON">> ELSE <<>>
              diff_arg == IF text.json = "invalid" THEN "fallback" ELSE "parsed"
          IN  IF text.json \notin {"invalid", "object"}
              THEN \* compare_schemas calls existing.items() on a list or a scalar
                   /\ ret' = [kind |-> "raise", exc |-> "AttributeError", text |-> text,
                              diff_arg |-> diff_arg, shown |-> invalid]
                   /\ llm_prompts' = <<>>
                   /\ UNCHANGED latest_context
              ELSE LET existing_schema == IF text.json = "invalid" THEN <<>> ELSE text.value
                       d == compare_schemas(existing_schema, new_schema)
                       e == explain_changes_with_ai(existing_schema, new_schema,
                                LocalTableName, LLM_PROVIDER, LLM_ENDPOINT, LLM_API_KEY,
                                backend)
                       sql == generate_sql_with_ai(existing_schema, new_schema,
                                                   LocalTableName)
                   IN  IF ~pressed
                       THEN /\ ret' = [kind |-> "return", text |-> text,
                                       diff_arg |-> diff_arg, diff |-> d, shown |-> invalid]
                            /\ llm_prompts' = <<>>
                            /\ UNCHANGED latest_context
                       ELSE /\ llm_prompts' = e.prompts
                            /\ IF e.res.kind = "raise"
                               THEN /\ ret' = [kind |-> "raise", exc |-> e.res.exc,
                                               text |-> text, diff_arg |-> diff_arg,
                                               diff |-> d, shown |-> invalid]
                                    /\ UNCHANGED latest_context
                               ELSE /\ ret' = [kind |-> "return", text |-> text,
                                               diff_arg |-> diff_arg, diff |-> d,
                                               shown |-> invalid \o <<e.res.text, sql>>]
                                    /\ latest_context' =
                                         ContextText("Existing: ", existing_schema,
                                                     "New: ", new_schema, sql)
    /\ op' = "local_ai_explain"
    /\ UNCHANGED <<args, llm_config, live_schema, prev_schema>>

Init == InitApp

Next == FetchLiveSchema \/ ValidatePrev \/ AnalyzeLive \/ LocalRun

Spec == Init /\ [][Next]_vars

-----------------------------------------------------------------------------
(* Reference notions the properties are stated with: computed from the     *)
(* arguments by sets, not by the code's comprehensions.                    *)

\* the upper-cased column names of a schema
ColumnsOf(d) == { Upper(d[i].k) : i \in 1..Len(d) }

\* the type a schema gives an upper-cased column: the last item that folds to it
TypeIn(d, c) ==
    LET last == CHOOSE i \in 1..Len(d) :
                    /\ Upper(d[i].k) = c
                    /\ \A j \in (i + 1)..Len(d) : Upper(d[j].k) # c
    IN  d[last].v

KeySet(m) == { m[i].k : i \in 1..Len(m) }
AsMapping(m) == { <<m[i].k, m[i].v>> : i \in 1..Len(m) }

AddedOf(e, n) == ColumnsOf(n) \ ColumnsOf(e)
RemovedOf(e, n) == ColumnsOf(e) \ ColumnsOf(n)
ConflictedOf(e, n) ==
    { c \in ColumnsOf(e) \cap ColumnsOf(n) : TypeIn(e, c) # TypeIn(n, c) }
UnchangedOf(e, n) ==
    { c \in ColumnsOf(e) \cap ColumnsOf(n) : TypeIn(e, c) = TypeIn(n, c) }
EmptyDiff(e, n) ==
    AddedOf(e, n) = {} /\ RemovedOf(e, n) = {} /\ ConflictedOf(e, n) = {}

\* no two keys of the dict fold to the same upper-cased name
NoCollision(d) ==
    \A i, j \in 1..Len(d) : i # j => Upper(d[i].k) # Upper(d[j].k)

DropColumn == <<"DROP", " ", "COLUMN">>

-----------------------------------------------------------------------------
(* Properties of compare_schemas and generate_sql_with_ai (SpecCore) *)

\* C1: the key sets of Added, Removed and Conflicted returned by
\* compare_schemas are pairwise disjoint, and every upper-cased column name of
\* either schema is in exactly one of Added (candidate only), Removed (existing
\* only), Conflicted (both, types differ), Unchanged (both, types equal); the
\* four together are keys(existing) \cup keys(candidate).
C1_Partition ==
    op = "compare_schemas" =>
        LET A == KeySet(ret.diff.new_cols)
            R == KeySet(ret.diff.missing_cols)
            C == KeySet(ret.diff.conflicts)
            U == UnchangedOf(existing, new)
            all == ColumnsOf(existing) \cup ColumnsOf(new)
        IN  /\ A \cap R = {} /\ A \cap C = {} /\ R \cap C = {}
            /\ A = AddedOf(existing, new)
            /\ R = RemovedOf(existing, new)
            /\ C = ConflictedOf(existing, new)
            /\ A \cup R \cup C \cup U = all
            /\ \A c \in all :
                  Cardinality({ S \in {A, R, C, U} : c \in S }) = 1
            /\ Len(ret.diff.new_cols) = Cardinality(A)
            /\ Len(ret.diff.missing_cols) = Cardinality(R)
            /\ Len(ret.diff.conflicts) = Cardinality(C)

C1_Witness ==
    /\ op = "compare_schemas"
    /\ ret.diff.new_cols # <<>>
    /\ ret.diff.missing_cols # <<>>
    /\ ret.diff.conflicts # <<>>

\* C2: Added of compare_schemas(A, B) is Removed of compare_schemas(B, A), and
\* Removed of compare_schemas(A, B) is Added of compare_schemas(B, A), as
\* mappings (same columns, same types).
C2_SwapAntisymmetry ==
    op = "compare_schemas" =>
        LET swapped == compare_schemas(new, existing) IN
            /\ AsMapping(ret.diff.new_cols) = AsMapping(swapped.missing_cols)
            /\ AsMapping(ret.diff.missing_cols) = AsMapping(swapped.new_cols)

C2_Witness ==
    /\ op = "compare_schemas"
    /\ Len(ret.diff.new_cols) = 2
    /\ ret.diff.missing_cols # <<>>
    /\ ~NoCollision(existing)

\* C3 as stated: for every pair of schemas and every table name no line of the
\* text of generate_sql_with_ai contains DROP COLUMN, and each Removed column
\* gives only a comment line beginning with -- that names the column and its
\* old type.
C3_NeverDropColumn ==
    op = "generate_sql_with_ai" =>
        LET L == Split(ret.text, "\n") IN
            /\ \A i \in 1..Len(L) : ~Contains(L[i], DropColumn)
            /\ \A c \in RemovedOf(existing, new) :
                  \E i \in 1..Len(L) :
                      /\ StartsWith(L[i], <<"--">>)
                      /\ Contains(L[i], c)
                      /\ Contains(L[i], TypeIn(existing, c))

\* the word DROP occurs in none of the texts the caller passes
NoDropInArguments ==
    /\ ~Contains(table_name, <<"DROP">>)
    /\ \A d \in {existing, new} : \A i \in 1..Len(d) :
          /\ ~Contains(Upper(d[i].k), <<"DROP">>)
          /\ ~Contains(d[i].v, <<"DROP">>)

\* C3 amended: no line contains DROP COLUMN unless the word DROP comes in with
\* the table name, a column name (upper-cased) or a type name; in every case
\* each Removed column gives exactly one line, a comment beginning with --
\* that names the column and its old type, and no other line names it.
C3_NoDropColumnOfItsOwn ==
    op = "generate_sql_with_ai" =>
        LET L == Split(ret.text, "\n") IN
            /\ NoDropInArguments =>
                  \A i \in 1..Len(L) : ~Contains(L[i], DropColumn)
            /\ \A c \in RemovedOf(existing, new) :
                  /\ \E i \in 1..Len(L) :
                        /\ StartsWith(L[i], <<"--", " ">>)
                        /\ Contains(L[i], <<" ">> \o c \o <<" ", "(">>
                                          \o TypeIn(existing, c) \o <<")">>)
                  /\ \A i \in 1..Len(L) :
                        Contains(L[i], <<" ">> \o c \o <<" ">>)
                            => StartsWith(L[i], <<"--", " ">>)

C3_Witness ==
    /\ op = "generate_sql_with_ai"
    /\ NoDropInArguments
    /\ Cardinality(RemovedOf(existing, new)) = 2

\* C4: generate_sql_with_ai never returns the empty string; when Added,
\* Removed and Conflicted are all empty it returns the one fixed comment that
\* no changes are needed, the same for every table name and schema pair.
C4_NeverEmpty ==
    op = "generate_sql_with_ai" =>
        /\ ret.text # <<>>
        /\ \A i \in 1..Len(ret.text) : ret.text[i] # ""
        /\ EmptyDiff(existing, new) =>
              ret.text = <<"--", " ", "No", " ", "schema", " ", "changes", " ",
                           "detected.", " ", "No", " ", "ALTER", " ", "TABLE",
                           " ", "needed.">>

C4_Witness ==
    /\ op = "generate_sql_with_ai"
    /\ EmptyDiff(existing, new)
    /\ Len(existing) = 2
    /\ existing # new
    /\ table_name = <<"EMPLOYEE">>

\* C7 as stated: calls whose existing schemas are equal as mappings, whose
\* candidate schemas are equal as mappings and whose table names are equal
\* return the same text: listing the columns in another order changes nothing.
\* (Reversing a dict whose keys do not collide gives an equal mapping.)
C7_OrderIndependent ==
    (op = "generate_sql_with_ai" /\ NoCollision(existing) /\ NoCollision(new)) =>
        ret.text = generate_sql_with_ai(Reverse(existing), Reverse(new), table_name)

\* C8: for a non-empty diff the text is one ADD COLUMN line per Added column
\* (candidate type, NULL), then one comment line per Removed column, then one
\* ALTER COLUMN ... SET DATA TYPE line per Conflicted column with the
\* candidate's type; the categories come in that order and the number of lines
\* is |Added| + |Removed| + |Conflicted|.
C8_LinesByCategory ==
    (op = "generate_sql_with_ai" /\ ~EmptyDiff(existing, new)) =>
        LET L == Split(ret.text, "\n")
            A == AddedOf(existing, new)
            R == RemovedOf(existing, new)
            C == ConflictedOf(existing, new)
            a == Cardinality(A)
            r == Cardinality(R)
        IN  /\ Len(L) = a + r + Cardinality(C)
            /\ { L[i] : i \in 1..a } =
                 { <<"ALTER", " ", "TABLE", " ">> \o table_name
                     \o <<" ", "ADD", " ", "COLUMN", " ">> \o c \o <<" ">>
                     \o TypeIn(new, c) \o <<" ", "NULL", ";">> : c \in A }
            /\ \A c \in R : \E i \in (a + 1)..(a + r) :
                  /\ StartsWith(L[i], <<"--", " ">>)
                  /\ Contains(L[i], <<" ">> \o c \o <<" ", "(">>
                                    \o TypeIn(existing, c) \o <<")">>)
            /\ \A i \in (a + 1)..(a + r) :
                  /\ StartsWith(L[i], <<"--", " ">>)
                  /\ \E c \in R : Contains(L[i], <<" ">> \o c \o <<" ", "(">>)
            /\ { L[i] : i \in (a + r + 1)..Len(L) } =
                 { <<"ALTER", " ", "TABLE", " ">> \o table_name
                     \o <<" ", "ALTER", " ", "COLUMN", " ">> \o c
                     \o <<" ", "SET", " ", "DATA", " ", "TYPE", " ">>
                     \o TypeIn(new, c) \o <<";">> : c \in C }

C8_Witness ==
    /\ op = "generate_sql_with_ai"
    /\ AddedOf(existing, new) # {}
    /\ RemovedOf(existing, new) # {}
    /\ ConflictedOf(existing, new) # {}
    /\ table_name = <<"EMPLOYEE">>

-----------------------------------------------------------------------------
(* Properties of explain_changes_with_ai (SpecExplain) *)

\* C5 as stated: on an empty diff explain_changes_with_ai never calls chat_llm
\* and returns the fixed static message, the same whatever the table name.
C5_FixedMessageAnyTable ==
    (op = "explain_changes_with_ai" /\ EmptyDiff(existing, new)) =>
        /\ llm_prompts = <<>>
        /\ ret.kind = "return"
        /\ \A t \in TableNames :
              explain_changes_with_ai(existing, new, t, LLM_PROVIDER, LLM_ENDPOINT,
                                      LLM_API_KEY, ret.backend).res.text = ret.text

\* C5 amended: on an empty diff explain_changes_with_ai never calls chat_llm
\* and returns the static no-changes message, which is fixed except that it
\* quotes the table name; provider, configuration and backend play no part.
C5_StaticMessageNoCall ==
    (op = "explain_changes_with_ai" /\ EmptyDiff(existing, new)) =>
        /\ llm_prompts = <<>>
        /\ ret.kind = "return"
        /\ ret.text =
             <<CheckMark, " ", "No schema changes detected for table ", Backtick>>
                \o table_name
                \o <<Backtick, ".", "  ", "\n",
                     "Both existing and candidate schemas are identical.", "  ", "\n",
                     "No risks, conflicts, or SQL migrations are required.">>

C5_Witness ==
    /\ op = "explain_changes_with_ai"
    /\ EmptyDiff(existing, new)
    /\ Len(existing) = 2
    /\ LLM_PROVIDER = "ollama"
    /\ ret.backend = "unreachable"

\* the backend failures C6 names
BackendFailures == { "unreachable", "error_status", "malformed_body" }

\* C6 as stated: for a non-empty diff, whenever the backend fails (unreachable,
\* non-success response, malformed body, local or remote provider)
\* explain_changes_with_ai returns a text that indicates the failure; nothing
\* is raised out of it.
C6_FailureBecomesText ==
    ( /\ op = "explain_changes_with_ai"
      /\ ~EmptyDiff(existing, new)
      /\ LLM_PROVIDER \in {"ollama", "remote"}
      /\ ret.backend \in BackendFailures ) =>
        /\ ret.kind = "return"
        /\ Head(ret.text) = CrossMark

-----------------------------------------------------------------------------
(* Properties of infer_schema_from_df (SpecInfer) *)

\* what kind of values a dtype holds
IntegerLike(dtype) == dtype \in { "int64", "uint64" }
FloatLike(dtype) == dtype = "float64"
BooleanLike(dtype) == dtype = "bool"
DateTimeLike(dtype) == dtype = "datetime64[ns]"

ExpectedType(dtype) ==
    CASE IntegerLike(dtype) -> <<"NUMBER">>
      [] ~IntegerLike(dtype) /\ FloatLike(dtype) -> <<"FLOAT">>
      [] ~IntegerLike(dtype) /\ ~FloatLike(dtype) /\ BooleanLike(dtype) -> <<"BOOLEAN">>
      [] ~IntegerLike(dtype) /\ ~FloatLike(dtype) /\ ~BooleanLike(dtype)
            /\ DateTimeLike(dtype) -> <<"TIMESTAMP_NTZ">>
      [] OTHER -> <<"TEXT">>

\* C9 as stated: every column is mapped to the canonical type of its dtype by
\* the precedence integer, float, boolean, date/time, else TEXT; every key of
\* the schema is an upper-cased column name; no columns give the empty schema.
C9_EveryColumnTyped ==
    op = "infer_schema_from_df" =>
        /\ \A i \in 1..Len(df) :
              /\ HasKey(ret.schema, Upper(df[i].name))
              /\ Get(ret.schema, Upper(df[i].name)) = ExpectedType(df[i].dtype)
        /\ KeySet(ret.schema) = { Upper(df[i].name) : i \in 1..Len(df) }
        /\ df = <<>> => ret.schema = <<>>

\* C9 amended: as C9, except that of several columns whose names upper-case to
\* the same key only the last one decides the type of that key.
C9_LastColumnTyped ==
    op = "infer_schema_from_df" =>
        /\ \A i \in 1..Len(df) :
              /\ HasKey(ret.schema, Upper(df[i].name))
              /\ (\A j \in (i + 1)..Len(df) : Upper(df[j].name) # Upper(df[i].name))
                    => Get(ret.schema, Upper(df[i].name)) = ExpectedType(df[i].dtype)
        /\ KeySet(ret.schema) = { Upper(df[i].name) : i \in 1..Len(df) }
        /\ Len(ret.schema) = Cardinality(KeySet(ret.schema))
        /\ df = <<>> => ret.schema = <<>>

C9_Witness ==
    /\ op = "infer_schema_from_df"
    /\ Len(df) = 2
    /\ Upper(df[1].name) = Upper(df[2].name)
    /\ df[1].dtype = "float64"
    /\ df[2].dtype = "datetime64[ns]"

-----------------------------------------------------------------------------
(* Properties of the session's snapshot handling (Spec) *)

\* the two snapshot shapes: an object (column -> type) or an array of row objects
SupportedShape(text) == text.json \in { "object", "array_of_rows" }

IsValidationError(msg) ==
    msg \in { "error: Invalid JSON", "error: Unsupported JSON structure.",
              "error: Invalid existing schema JSON" }

\* C10 as stated: a snapshot text that is not valid JSON, or is valid JSON of
\* another shape than an object or an array of row objects, is rejected with a
\* descriptive validation failure (the run ends normally and shows it), the
\* stored previous schema stays as it was, and no diff is computed from the
\* rejected value; this in the live mode's validation and in the local mode's
\* parse of the existing schema alike.
C10_SnapshotValidated ==
    [][ (op' \in { "validate_prev", "local_ai_explain" } /\ ~SupportedShape(ret'.text)) =>
            /\ ret'.kind = "return"
            /\ \E i \in 1..Len(ret'.shown) : IsValidationError(ret'.shown[i])
            /\ prev_schema' = prev_schema
            /\ ret'.diff_arg # "parsed" ]_vars

-----------------------------------------------------------------------------
(* Properties of the live mode's handlers (Spec) *)

LiveHandlers == { "sf_fetch_schema", "validate_prev", "analyze_live" }

BothCalls == <<"explain_changes_with_ai", "generate_sql_with_ai">>

\* C11: in live mode, over any sequence of Fetch, Validate and Analyze runs:
\* a failed fetch clears the stored live schema and a successful one stores
\* what it fetched, and nothing but a fetch changes the stored live schema, so
\* Analyze never runs on a schema older than the latest fetch attempt; Analyze
\* with no stored live schema shows an error, calls neither
\* explain_changes_with_ai nor generate_sql_with_ai (nor chat_llm) and leaves
\* latest_context as it was; latest_context changes only in an Analyze that
\* completed both calls, and then holds the stored previous schema, the stored
\* live schema and the SQL generated from the two.
C11_LiveSession ==
    [][ op' \in LiveHandlers =>
          /\ (op' = "sf_fetch_schema" /\ ret'.outcome = "error") => live_schema' = <<>>
          /\ (op' = "sf_fetch_schema" /\ ret'.outcome = "rows") =>
                /\ Len(live_schema') = 1
                /\ KeySet(live_schema'[1]) = ColumnsOf(ret'.rows)
          /\ op' # "sf_fetch_schema" => live_schema' = live_schema
          /\ (op' = "analyze_live" /\ live_schema = <<>>) =>
                /\ ret'.shown = <<"error: No live schema present. Fetch it first.">>
                /\ ret'.calls = <<>>
                /\ llm_prompts' = <<>>
                /\ latest_context' = latest_context
          /\ (op' = "analyze_live" /\ ret'.calls # BothCalls) =>
                latest_context' = latest_context
          /\ op' # "analyze_live" => latest_context' = latest_context
          /\ (op' = "analyze_live" /\ ret'.calls = BothCalls) =>
                /\ live_schema # <<>>
                /\ latest_context' =
                     <<"Prev: ">> \o DictRepr(prev_schema)
                        \o <<"\n", "Live: ">> \o DictRepr(live_schema[1])
                        \o <<"\n", "SQL: ">> \o ret'.shown[2]
                /\ LET L == Split(ret'.shown[2], "\n") IN
                      \/ /\ EmptyDiff(prev_schema, live_schema[1])
                         /\ Len(L) = 1 /\ StartsWith(L[1], <<"--", " ", "No">>)
                      \/ /\ ~EmptyDiff(prev_schema, live_schema[1])
                         /\ Len(L) = Cardinality(AddedOf(prev_schema, live_schema[1]))
                                   + Cardinality(RemovedOf(prev_schema, live_schema[1]))
                                   + Cardinality(ConflictedOf(prev_schema, live_schema[1]))
      ]_vars

\* A fetch failed after an analysis had completed, and the Analyze that
\* followed found no live schema: the earlier context is still there.
C11_Witness ==
    /\ op = "analyze_live"
    /\ ret.calls = <<>>
    /\ live_schema = <<>>
    /\ StartsWith(latest_context, <<"Prev: ">>)
    /\ prev_schema # <<>>

====
